---- MODULE Spec2Model ----
(***************************************************************************)
(* The item-catalog service of mercari-build-training (Go).  Two builds    *)
(* of the server exist in the repository:                                  *)
(*   "file" : src/unnamed/part_000   (getItemsHandler, postItemsHandler,   *)
(*            getItemHandler, searchItemsHandler over items.json)          *)
(*   "app"  : src/go/app/main.go     (itemsHandler, getItemHandler,        *)
(*            searchItemsHandler; the search is an unfinished stub)        *)
(* src/go/main2.go is a fragment (a list handler over a database, with no  *)
(* package clause) that belongs to neither build; it is not modelled.      *)
(* A behaviour is a run of one build.  net/http serves every request on    *)
(* its own goroutine, so handlers interleave at the granularity of their   *)
(* file-system calls; neither build takes a lock.                          *)
(***************************************************************************)
EXTENDS Integers, Sequences, FiniteSets, TLC

(* ------------------------------ bounds --------------------------------- *)
\* goroutines serving requests at the same time
NumProcs == 2
\* POST /items requests accepted in one behaviour
MaxPosts == 2
\* file-system calls that fail in one behaviour
MaxFaults == 1
\* clock readings after the first one
MaxTicks == 1

(* --------------------------- program constants ------------------------- *)
StatusOK == 200
StatusCreated == 201
StatusBadRequest == 400
StatusNotFound == 404
StatusInternalServerError == 500

Procs == 1..NumProcs
Variants == {"file", "app"}

(* ------------------------------ strings -------------------------------- *)
\* Go strings are modelled as sequences of one-character strings.
Digits == <<"0", "1", "2", "3", "4", "5", "6", "7", "8", "9">>
HexDigits == <<"0", "1", "2", "3", "4", "5", "6", "7", "8", "9",
               "a", "b", "c", "d", "e", "f">>

\* strconv.FormatInt(n, 10) for n >= 0
RECURSIVE FormatInt(_)
FormatInt(n) ==
    IF n < 10 THEN <<Digits[n + 1]>>
    ELSE FormatInt(n \div 10) \o <<Digits[(n % 10) + 1]>>

\* strings.Contains(s, substr)
Contains(s, substr) ==
    \E i \in 0..(Len(s) - Len(substr)) : SubSeq(s, i + 1, i + Len(substr)) = substr

\* filepath.Ext(path): the suffix beginning at the final dot of the final
\* element of path; empty when there is no dot.
RECURSIVE ExtFrom(_, _)
ExtFrom(path, i) ==
    IF i < 1 \/ path[i] = "/" THEN <<>>
    ELSE IF path[i] = "." THEN SubSeq(path, i, Len(path))
    ELSE ExtFrom(path, i - 1)

Ext(path) == ExtFrom(path, Len(path))

\* sha256 of the uploaded bytes, printed with %x.  The digest is abstracted
\* to one byte (a polynomial checksum); the uploads of the model are chosen
\* free of collisions, as SHA-256 is taken to be.
RECURSIVE Sum256(_, _)
Sum256(h, bytes) ==
    IF bytes = <<>> THEN h
    ELSE Sum256((h * 31 + Head(bytes)) % 256, Tail(bytes))

Sha256Hex(bytes) ==
    LET h == Sum256(7, bytes)
    IN  <<HexDigits[(h \div 16) + 1], HexDigits[(h % 16) + 1]>>

(* ------------------------------- inputs -------------------------------- *)
NoImage == [present |-> FALSE, content |-> <<>>, filename |-> <<>>]
Image(content, filename) ==
    [present |-> TRUE, content |-> content, filename |-> filename]

\* the POST requests: the form values name and category, the file part
\* "image" (its bytes and its client file name), and whether the body is a
\* multipart form that parses
Requests ==
    { [parsed |-> TRUE, name |-> <<"S", "h">>, category |-> <<"F">>,
       image |-> Image(<<1, 2>>, <<"a", ".", "j">>)],
      [parsed |-> TRUE, name |-> <<"B">>, category |-> <<"s", "h">>,
       image |-> Image(<<1, 2>>, <<"b", ".", "p">>)],
      [parsed |-> TRUE, name |-> <<"B">>, category |-> <<"F">>,
       image |-> Image(<<1, 2>>, <<"c", ".", "j">>)],
      [parsed |-> TRUE, name |-> <<"B">>, category |-> <<"F">>,
       image |-> Image(<<3>>, <<"c">>)],
      [parsed |-> TRUE, name |-> <<"B">>, category |-> <<"F">>, image |-> NoImage],
      [parsed |-> FALSE, name |-> <<>>, category |-> <<>>, image |-> NoImage] }

Keywords == { <<>>, <<"S">>, <<"s", "h">>, <<"h">>, <<"x">> }

(* ------------------------------ JSON ----------------------------------- *)
\* A document is a sequence of tokens; a write that stops part-way leaves a
\* proper prefix of the tokens.
TokOpen == [t |-> "open"]
TokClose == [t |-> "close"]
TokItem(it) == [t |-> "item", v |-> it]

RECURSIVE ItemTokens(_)
ItemTokens(items) ==
    IF items = <<>> THEN <<>>
    ELSE <<TokItem(Head(items))>> \o ItemTokens(Tail(items))

\* json.Marshal(Items{Items: items})
Marshal(items) == <<TokOpen>> \o ItemTokens(items) \o <<TokClose>>

\* json.Unmarshal(data, &items): a syntax error leaves items untouched
\* (empty) and is returned as err.
Unmarshal(data) ==
    IF /\ Len(data) >= 2
       /\ data[1].t = "open"
       /\ data[Len(data)].t = "close"
       /\ \A i \in 2..(Len(data) - 1) : data[i].t = "item"
    THEN [err |-> FALSE, items |-> [i \in 1..(Len(data) - 2) |-> data[i + 1].v]]
    ELSE [err |-> TRUE, items |-> <<>>]

(* ------------------------------- state --------------------------------- *)
VARIABLES
    variant,    \* which build runs
    now,        \* the reading time.Now().UnixNano() gives
    exists,     \* whether items.json exists
    doc,        \* the content of items.json
    images,     \* the directory images/: file name -> content
    pc,         \* per POST goroutine: where its handler stands
    req,        \* per POST goroutine: the request
    item,       \* per goroutine: postItemsHandler's item
    updated,    \* per goroutine: postItemsHandler's updatedData
    data,       \* per goroutine: what ioutil.ReadFile returned
    werr,       \* per goroutine: the error ioutil.WriteFile returned
    resp,       \* per goroutine: the response written
    read,       \* the GET request just served: operation, argument, what
                \* ioutil.ReadFile returned, the response
    initCat,    \* history: the catalog persisted at start
    acked,      \* history: the POSTs answered 201, in order: request and item
    nPosts,     \* history: POST requests accepted
    nFaults,    \* history: failed file-system calls
    nTicks      \* history: clock advances

vars == <<variant, now, exists, doc, images, pc, req, item, updated, data,
          werr, resp, read, initCat, acked, nPosts, nFaults, nTicks>>

fsVars == <<exists, doc, images>>
postVars == <<pc, req, item, updated, data, werr, resp>>
histVars == <<initCat, acked, nPosts, nFaults, nTicks>>

NoItem == [id |-> <<>>, name |-> <<>>, category |-> <<>>, image_name |-> <<>>]
NoReq == [parsed |-> FALSE, name |-> <<>>, category |-> <<>>, image |-> NoImage]
NoData == [called |-> FALSE, err |-> FALSE, bytes |-> <<>>]
NoResp == [status |-> 0, items |-> <<>>, item |-> NoItem, raw |-> <<>>]
NoRead == [op |-> "none", arg |-> <<>>, data |-> NoData, resp |-> NoResp]

\* the first reading of the clock
InitTime == 9

\* an item persisted by an earlier run, its image stored by that run
OldItem == [id |-> FormatInt(InitTime - 1), name |-> <<"S", "h">>,
            category |-> <<"F">>,
            image_name |-> Sha256Hex(<<1, 2>>) \o <<".", "j">>]

Init ==
    /\ variant \in Variants
    /\ now = InitTime
    /\ \/ /\ exists = FALSE
          /\ doc = <<>>
          /\ images = << >>
          /\ initCat = <<>>
       \/ /\ exists = TRUE
          /\ doc = Marshal(<<OldItem>>)
          /\ images = [k \in {OldItem.image_name} |-> <<1, 2>>]
          /\ initCat = <<OldItem>>
    /\ pc = [p \in Procs |-> "idle"]
    /\ req = [p \in Procs |-> NoReq]
    /\ item = [p \in Procs |-> NoItem]
    /\ updated = [p \in Procs |-> <<>>]
    /\ data = [p \in Procs |-> NoData]
    /\ werr = [p \in Procs |-> FALSE]
    /\ resp = [p \in Procs |-> NoResp]
    /\ read = NoRead
    /\ acked = <<>>
    /\ nPosts = 0
    /\ nFaults = 0
    /\ nTicks = 0

\* time passes between two readings of the clock
Tick ==
    /\ read.op = "none"
    /\ nTicks < MaxTicks
    /\ now' = now + 1
    /\ nTicks' = nTicks + 1
    /\ UNCHANGED <<variant, fsVars, postVars, read, initCat, acked, nPosts, nFaults>>

(* ------------------------------ file system ---------------------------- *)
\* ioutil.ReadFile("items.json")
ReadFile(ex, d) ==
    IF ex THEN [called |-> TRUE, err |-> FALSE, bytes |-> d]
    ELSE [called |-> TRUE, err |-> TRUE, bytes |-> <<>>]

\* a write of bytes at offset 0 of a file holding d: what lies beyond the
\* written bytes stays
WriteAt0(d, bytes) ==
    IF Len(bytes) >= Len(d) THEN bytes
    ELSE bytes \o SubSeq(d, Len(bytes) + 1, Len(d))

\* the prefixes a write of bytes leaves when it fails part-way
ShortWrites(bytes) == { SubSeq(bytes, 1, k) : k \in 0..(Len(bytes) - 1) }

\* the directory images/ with file name holding content
PutImage(dir, name, content) ==
    [k \in (DOMAIN dir) \cup {name} |-> IF k = name THEN content ELSE dir[k]]

(* ------------------------------ responses ------------------------------ *)
\* http.Error(w, ..., code) and http.NotFound
ErrorResp(code) == [status |-> code, items |-> <<>>, item |-> NoItem, raw |-> <<>>]
\* w.Write(data)
RawResp(bytes) == [status |-> StatusOK, items |-> <<>>, item |-> NoItem, raw |-> bytes]
\* json.NewEncoder(w).Encode(item)
ItemResp(it) == [status |-> StatusOK, items |-> <<>>, item |-> it, raw |-> <<>>]
\* json.NewEncoder(w).Encode(map[string][]Item{"items": items})
ItemsResp(items) == [status |-> StatusOK, items |-> items, item |-> NoItem, raw |-> <<>>]
\* w.WriteHeader(http.StatusCreated) and the message naming the item
CreatedResp(it) == [status |-> StatusCreated, items |-> <<>>, item |-> it, raw |-> <<>>]

(* ---------------------------- read handlers ---------------------------- *)
\* getItemsHandler, and the GET branch of itemsHandler: the same code
getItemsHandler(rd) ==
    IF rd.err THEN ErrorResp(StatusInternalServerError)
    ELSE RawResp(rd.bytes)

\* for _, item := range items.Items { if item.ID == itemID { ... return } }:
\* the index of the item answered, 0 when the loop ends without one
RECURSIVE FindFrom(_, _, _)
FindFrom(items, itemID, i) ==
    IF i > Len(items) THEN 0
    ELSE IF items[i].id = itemID THEN i
    ELSE FindFrom(items, itemID, i + 1)

\* a scan that keeps going after a match: the last item of that id
RECURSIVE FindLastFrom(_, _, _)
FindLastFrom(items, itemID, i) ==
    IF i < 1 THEN 0
    ELSE IF items[i].id = itemID THEN i
    ELSE FindLastFrom(items, itemID, i - 1)

FindItem_Last(items, itemID) == FindLastFrom(items, itemID, Len(items))

FindItem(items, itemID) == FindFrom(items, itemID, 1)

\* getItemHandler of the file build
getItemHandler(rd, itemID) ==
    IF rd.err THEN ErrorResp(StatusInternalServerError)
    ELSE LET u == Unmarshal(rd.bytes)
             i == FindItem(u.items, itemID)
         IN  IF u.err THEN ErrorResp(StatusInternalServerError)
             ELSE IF i > 0 THEN ItemResp(u.items[i])
             ELSE ErrorResp(StatusNotFound)

\* getItemHandler of the app build: the error of json.Unmarshal is dropped
app_getItemHandler(rd, itemID) ==
    IF rd.err THEN ErrorResp(StatusInternalServerError)
    ELSE LET u == Unmarshal(rd.bytes)
             i == FindItem(u.items, itemID)
         IN  IF i > 0 THEN ItemResp(u.items[i])
             ELSE ErrorResp(StatusNotFound)

\* the loop of searchItemsHandler: matchedItems
RECURSIVE MatchedItems(_, _)
MatchedItems(items, keyword) ==
    IF items = <<>> THEN <<>>
    ELSE LET it == Head(items)
             rest == MatchedItems(Tail(items), keyword)
         IN  IF Contains(it.name, keyword) \/ Contains(it.category, keyword)
             THEN <<it>> \o rest
             ELSE rest

\* searchItemsHandler with items.json read before the keyword is looked at
searchItemsHandler_LoadFirst(ex, d, keyword) ==
    LET rd == ReadFile(ex, d)
        u == Unmarshal(rd.bytes)
    IN  IF rd.err THEN ErrorResp(StatusInternalServerError)
        ELSE IF u.err THEN ErrorResp(StatusInternalServerError)
        ELSE IF keyword = <<>> THEN ErrorResp(StatusBadRequest)
        ELSE ItemsResp(MatchedItems(u.items, keyword))

\* searchItemsHandler of the file build; the keyword is checked before
\* items.json is read
searchItemsHandler(ex, d, keyword) ==
    IF keyword = <<>> THEN ErrorResp(StatusBadRequest)
    ELSE LET rd == ReadFile(ex, d)
             u == Unmarshal(rd.bytes)
         IN  IF rd.err THEN ErrorResp(StatusInternalServerError)
             ELSE IF u.err THEN ErrorResp(StatusInternalServerError)
             ELSE ItemsResp(MatchedItems(u.items, keyword))

\* searchItemsHandler of the app build: "var items []Item" is never filled
app_searchItemsHandler(ex, d, keyword) ==
    IF keyword = <<>> THEN ErrorResp(StatusBadRequest)
    ELSE ItemsResp(<<>>)

(* ------------------------------- actions ------------------------------- *)
\* the ids a client may ask for: every id the clock has given, and one
\* that no item has
KnownIds == { FormatInt(t) : t \in (InitTime - 1)..now } \cup { <<"n", "o">> }

\* A GET handler touches the shared state once, in ioutil.ReadFile, and
\* changes nothing: it is one step.  Its answer is held in read until the
\* handler returns, which it does before anything else happens.

\* GET /items with items.json opened O_RDONLY|O_CREATE: a missing file is
\* created empty by the read
GetItems_CreatesFile ==
    /\ read.op = "none"
    /\ LET rd == ReadFile(exists, doc)
       IN  read' = [op |-> "list", arg |-> <<>>, data |-> rd,
                    resp |-> getItemsHandler(rd)]
    /\ exists' = TRUE
    /\ doc' = IF exists THEN doc ELSE <<>>
    /\ UNCHANGED <<variant, now, images, postVars, histVars>>

\* GET /items
GetItems ==
    /\ read.op = "none"
    /\ LET rd == ReadFile(exists, doc)
       IN  read' = [op |-> "list", arg |-> <<>>, data |-> rd,
                    resp |-> getItemsHandler(rd)]
    /\ UNCHANGED <<variant, now, fsVars, postVars, histVars>>

\* GET /items/{item_id}
GetItem ==
    /\ read.op = "none"
    /\ \E itemID \in KnownIds :
         LET rd == ReadFile(exists, doc)
         IN  read' = [op |-> "get", arg |-> itemID, data |-> rd,
                      resp |-> IF variant = "file" THEN getItemHandler(rd, itemID)
                               ELSE app_getItemHandler(rd, itemID)]
    /\ UNCHANGED <<variant, now, fsVars, postVars, histVars>>

\* GET /search?keyword=K
SearchItems ==
    /\ read.op = "none"
    /\ \E keyword \in Keywords :
         read' = [op |-> "search", arg |-> keyword,
                  data |-> IF keyword = <<>> \/ variant = "app" THEN NoData
                           ELSE ReadFile(exists, doc),
                  resp |-> IF variant = "file"
                           THEN searchItemsHandler(exists, doc, keyword)
                           ELSE app_searchItemsHandler(exists, doc, keyword)]
    /\ UNCHANGED <<variant, now, fsVars, postVars, histVars>>

\* the GET handler has returned
ReturnGet ==
    /\ read.op # "none"
    /\ read' = NoRead
    /\ UNCHANGED <<variant, now, fsVars, postVars, histVars>>

(* ------------------------- POST /items, step by step ------------------- *)
\* postItemsHandler of the file build and the POST branch of itemsHandler of
\* the app build are the same code.  The goroutine stands at
\*   "create" before os.Create(images/<name>)
\*   "copy"   before io.Copy(dst, file)
\*   "load"   before ioutil.ReadFile("items.json")
\*   "open"   before the open (O_WRONLY|O_CREATE|O_TRUNC) of ioutil.WriteFile
\*   "write"  before the write of ioutil.WriteFile

\* a file-system call may fail while failures are left in the bound
MayFail(fail) == fail => nFaults < MaxFaults
Faults(fail) == IF fail THEN nFaults + 1 ELSE nFaults

\* the image kept under the file name the client gave, without the hash of
\* the bytes
HashedFilename_ClientName(upload) == upload.filename

\* item.ImageName: hashedFilename
HashedFilename(upload) == Sha256Hex(upload.content) \o Ext(upload.filename)

\* no GET handler is between its answer and its return
Serving == read.op = "none"

\* the start of postItemsHandler with the image optional: a request without
\* the file part "image" goes on to the catalog
PostBegin_ImageOptional(p) ==
    /\ Serving
    /\ pc[p] = "idle"
    /\ \A q \in Procs : q < p => pc[q] # "idle"
    /\ nPosts < MaxPosts
    /\ \E r \in Requests, fail \in BOOLEAN :
         /\ MayFail(fail)
         /\ fail => (r.parsed /\ r.image.present)
         /\ req' = [req EXCEPT ![p] = r]
         /\ nFaults' = Faults(fail)
         /\ IF ~r.parsed
            THEN \* r.ParseMultipartForm failed
                 /\ resp' = [resp EXCEPT ![p] = ErrorResp(StatusBadRequest)]
                 /\ pc' = [pc EXCEPT ![p] = "done"]
                 /\ item' = item
            ELSE LET it == [id |-> FormatInt(now), name |-> r.name,
                            category |-> r.category, image_name |-> <<>>]
                 IN  IF ~r.image.present
                     THEN \* no image: the item is kept without one
                          /\ resp' = resp
                          /\ pc' = [pc EXCEPT ![p] = "load"]
                          /\ item' = [item EXCEPT ![p] = it]
                     ELSE IF fail
                     THEN \* "Failed to hash the image"
                          /\ resp' = [resp EXCEPT ![p] =
                                        ErrorResp(StatusInternalServerError)]
                          /\ pc' = [pc EXCEPT ![p] = "done"]
                          /\ item' = [item EXCEPT ![p] = it]
                     ELSE /\ resp' = resp
                          /\ pc' = [pc EXCEPT ![p] = "create"]
                          /\ item' = [item EXCEPT ![p] =
                                        [it EXCEPT !.image_name = HashedFilename(r.image)]]
    /\ nPosts' = nPosts + 1
    /\ UNCHANGED <<variant, now, fsVars, updated, data, werr, read, initCat, acked,
                   nTicks>>

\* ParseMultipartForm, the form values, the id from the clock, FormFile and
\* the hash of the upload.  A request is served by a goroutine of its own;
\* the model gives it the lowest free slot.
PostBegin(p) ==
    /\ Serving
    /\ pc[p] = "idle"
    /\ \A q \in Procs : q < p => pc[q] # "idle"
    /\ nPosts < MaxPosts
    /\ \E r \in Requests, fail \in BOOLEAN :
         /\ MayFail(fail)
         /\ fail => (r.parsed /\ r.image.present)
         /\ req' = [req EXCEPT ![p] = r]
         /\ nFaults' = Faults(fail)
         /\ IF ~r.parsed
            THEN \* r.ParseMultipartForm failed
                 /\ resp' = [resp EXCEPT ![p] = ErrorResp(StatusBadRequest)]
                 /\ pc' = [pc EXCEPT ![p] = "done"]
                 /\ item' = item
            ELSE LET it == [id |-> FormatInt(now), name |-> r.name,
                            category |-> r.category, image_name |-> <<>>]
                 IN  IF ~r.image.present
                     THEN \* "Image is required"
                          /\ resp' = [resp EXCEPT ![p] = ErrorResp(StatusBadRequest)]
                          /\ pc' = [pc EXCEPT ![p] = "done"]
                          /\ item' = [item EXCEPT ![p] = it]
                     ELSE IF fail
                     THEN \* "Failed to hash the image"
                          /\ resp' = [resp EXCEPT ![p] =
                                        ErrorResp(StatusInternalServerError)]
                          /\ pc' = [pc EXCEPT ![p] = "done"]
                          /\ item' = [item EXCEPT ![p] = it]
                     ELSE /\ resp' = resp
                          /\ pc' = [pc EXCEPT ![p] = "create"]
                          /\ item' = [item EXCEPT ![p] =
                                        [it EXCEPT !.image_name = HashedFilename(r.image)]]
    /\ nPosts' = nPosts + 1
    /\ UNCHANGED <<variant, now, fsVars, updated, data, werr, read, initCat, acked,
                   nTicks>>

\* os.Create with its error not looked at, as that of ioutil.WriteFile is:
\* the handler goes on to the catalog without an image file
PostCreate_ErrIgnored(p) ==
    /\ Serving
    /\ pc[p] = "create"
    /\ \E fail \in BOOLEAN :
         /\ MayFail(fail)
         /\ nFaults' = Faults(fail)
         /\ resp' = resp
         /\ IF fail
            THEN /\ pc' = [pc EXCEPT ![p] = "load"]
                 /\ images' = images
            ELSE /\ pc' = [pc EXCEPT ![p] = "copy"]
                 /\ images' = PutImage(images, item[p].image_name, <<>>)
    /\ UNCHANGED <<variant, now, exists, doc, req, item, updated, data, werr, read,
                   initCat, acked, nPosts, nTicks>>

\* dst, err := os.Create(filepath.Join("images", hashedFilename)): the file
\* is created, or truncated when it exists
PostCreate(p) ==
    /\ Serving
    /\ pc[p] = "create"
    /\ \E fail \in BOOLEAN :
         /\ MayFail(fail)
         /\ nFaults' = Faults(fail)
         /\ IF fail
            THEN /\ resp' = [resp EXCEPT ![p] = ErrorResp(StatusInternalServerError)]
                 /\ pc' = [pc EXCEPT ![p] = "done"]
                 /\ images' = images
            ELSE /\ resp' = resp
                 /\ pc' = [pc EXCEPT ![p] = "copy"]
                 /\ images' = PutImage(images, item[p].image_name, <<>>)
    /\ UNCHANGED <<variant, now, exists, doc, req, item, updated, data, werr, read,
                   initCat, acked, nPosts, nTicks>>

\* io.Copy(dst, file): the bytes are written from offset 0 of dst
PostCopy(p) ==
    /\ Serving
    /\ pc[p] = "copy"
    /\ \E fail \in BOOLEAN :
         /\ MayFail(fail)
         /\ nFaults' = Faults(fail)
         /\ LET name == item[p].image_name
                content == req[p].image.content
            IN  IF fail
                THEN /\ \E part \in ShortWrites(content) :
                          images' = PutImage(images, name, WriteAt0(images[name], part))
                     /\ resp' = [resp EXCEPT ![p] =
                                   ErrorResp(StatusInternalServerError)]
                     /\ pc' = [pc EXCEPT ![p] = "done"]
                ELSE /\ images' = PutImage(images, name, WriteAt0(images[name], content))
                     /\ resp' = resp
                     /\ pc' = [pc EXCEPT ![p] = "load"]
    /\ UNCHANGED <<variant, now, exists, doc, req, item, updated, data, werr, read,
                   initCat, acked, nPosts, nTicks>>

\* data, err := ioutil.ReadFile("items.json"); if err == nil
\* { json.Unmarshal(data, &items) }; append; json.Marshal.  Neither error is
\* looked at: a missing and an unparseable document both count as empty.
UpdatedData(rd, it) ==
    LET items == IF rd.err THEN <<>> ELSE Unmarshal(rd.bytes).items
    IN  Marshal(Append(items, it))

PostLoad(p) ==
    /\ Serving
    /\ pc[p] = "load"
    /\ LET rd == ReadFile(exists, doc)
       IN  /\ data' = [data EXCEPT ![p] = rd]
           /\ updated' = [updated EXCEPT ![p] = UpdatedData(rd, item[p])]
    /\ pc' = [pc EXCEPT ![p] = "open"]
    /\ UNCHANGED <<variant, now, fsVars, req, item, werr, resp, read, histVars>>

\* what the handler answers once ioutil.WriteFile has returned err: err is
\* not looked at
AfterWriteFile(it, err) == CreatedResp(it)

\* ioutil.WriteFile, the open: items.json is created or truncated
PostOpen(p) ==
    /\ Serving
    /\ pc[p] = "open"
    /\ \E fail \in BOOLEAN :
         /\ MayFail(fail)
         /\ nFaults' = Faults(fail)
         /\ IF fail
            THEN /\ werr' = [werr EXCEPT ![p] = TRUE]
                 /\ resp' = [resp EXCEPT ![p] = AfterWriteFile(item[p], TRUE)]
                 /\ acked' = IF resp'[p].status = StatusCreated
                             THEN Append(acked, [req |-> req[p], item |-> item[p]])
                             ELSE acked
                 /\ pc' = [pc EXCEPT ![p] = "done"]
                 /\ UNCHANGED <<exists, doc>>
            ELSE /\ exists' = TRUE
                 /\ doc' = <<>>
                 /\ pc' = [pc EXCEPT ![p] = "write"]
                 /\ UNCHANGED <<werr, resp, acked>>
    /\ UNCHANGED <<variant, now, images, req, item, updated, data, read, initCat,
                   nPosts, nTicks>>

\* ioutil.WriteFile, the write and the close, and the answer
PostWrite(p) ==
    /\ Serving
    /\ pc[p] = "write"
    /\ \E fail \in BOOLEAN :
         /\ MayFail(fail)
         /\ nFaults' = Faults(fail)
         /\ IF fail
            THEN \E part \in ShortWrites(updated[p]) : doc' = WriteAt0(doc, part)
            ELSE doc' = WriteAt0(doc, updated[p])
         /\ werr' = [werr EXCEPT ![p] = fail]
         /\ resp' = [resp EXCEPT ![p] = AfterWriteFile(item[p], fail)]
    /\ acked' = IF resp'[p].status = StatusCreated
                THEN Append(acked, [req |-> req[p], item |-> item[p]])
                ELSE acked
    /\ pc' = [pc EXCEPT ![p] = "done"]
    /\ UNCHANGED <<variant, now, exists, images, req, item, updated, data, read,
                   initCat, nPosts, nTicks>>

\* the POST handler has returned
Return(p) ==
    /\ Serving
    /\ pc[p] = "done"
    /\ pc' = [pc EXCEPT ![p] = "idle"]
    /\ req' = [req EXCEPT ![p] = NoReq]
    /\ item' = [item EXCEPT ![p] = NoItem]
    /\ updated' = [updated EXCEPT ![p] = <<>>]
    /\ data' = [data EXCEPT ![p] = NoData]
    /\ werr' = [werr EXCEPT ![p] = FALSE]
    /\ resp' = [resp EXCEPT ![p] = NoResp]
    /\ UNCHANGED <<variant, now, fsVars, read, histVars>>

Post(p) ==
    \/ PostBegin(p)
    \/ PostCreate(p)
    \/ PostCopy(p)
    \/ PostLoad(p)
    \/ PostOpen(p)
    \/ PostWrite(p)
    \/ Return(p)

Next ==
    \/ Tick
    \/ GetItems
    \/ GetItem
    \/ SearchItems
    \/ ReturnGet
    \/ \E p \in Procs : Post(p)

Spec == Init /\ [][Next]_vars

\* one request at a time: a request is served only while no other is
Sequential(p) == \A q \in Procs \ {p} : pc[q] = "idle"
Quiet == \A q \in Procs : pc[q] = "idle"

SeqGetItems == Quiet /\ GetItems
SeqGetItem == Quiet /\ GetItem
SeqSearchItems == Quiet /\ SearchItems
SeqPostBegin(p) == Sequential(p) /\ PostBegin(p)
SeqPostCreate(p) == Sequential(p) /\ PostCreate(p)
SeqPostCopy(p) == Sequential(p) /\ PostCopy(p)
SeqPostLoad(p) == Sequential(p) /\ PostLoad(p)
SeqPostOpen(p) == Sequential(p) /\ PostOpen(p)
SeqPostWrite(p) == Sequential(p) /\ PostWrite(p)
SeqReturn(p) == Sequential(p) /\ Return(p)

NextSeq ==
    \/ Tick
    \/ SeqGetItems
    \/ SeqGetItem
    \/ SeqSearchItems
    \/ ReturnGet
    \/ \E p \in Procs :
          \/ SeqPostBegin(p)
          \/ SeqPostCreate(p)
          \/ SeqPostCopy(p)
          \/ SeqPostLoad(p)
          \/ SeqPostOpen(p)
          \/ SeqPostWrite(p)
          \/ SeqReturn(p)

SeqSpec == Init /\ [][NextSeq]_vars

(* ------------------------------- claims -------------------------------- *)
\* what a load of items.json yields at this moment
Load == ReadFile(exists, doc)
Parsed == Unmarshal(Load.bytes)
\* the persisted catalog: the items of the document when it parses
Catalog == IF Load.err \/ Parsed.err THEN <<>> ELSE Parsed.items
\* every item written into the document, whether or not the document parses
ItemsIn(d) == { d[i].v : i \in { j \in 1..Len(d) : d[j].t = "item" } }

AckedItems == [i \in 1..Len(acked) |-> acked[i].item]
NoPostRunning == \A p \in Procs : pc[p] \in {"idle", "done"}
\* goroutine p has read items.json and found a document that does not parse
LoadedCorrupt(p) ==
    /\ data[p].called
    /\ ~data[p].err
    /\ Unmarshal(data[p].bytes).err

\* how often x occurs in the sequence s
Count(s, x) == Cardinality({ i \in 1..Len(s) : s[i] = x })

\* C1: load-then-replace is serialized: once concurrent createItem calls
\* have all answered success (no file-system call having failed), the
\* persisted catalog holds the catalog from before and one item for each of
\* the calls; no append is lost.
C1_NoLostAppend ==
    (NoPostRunning /\ nFaults = 0) =>
        /\ Len(Catalog) = Len(initCat) + Len(acked)
        /\ \A i \in 1..Len(acked) :
              Count(Catalog, acked[i].item) >= Count(AckedItems, acked[i].item)

\* C2: a createItem that loads a document which exists and does not parse
\* fails with status 500 and never replaces the document: it does not reach
\* ioutil.WriteFile, and the document is as it was loaded.
C2_CorruptionPropagated ==
    \A p \in Procs :
        LoadedCorrupt(p) =>
            /\ pc[p] \notin {"open", "write"}
            /\ pc[p] = "done" =>
                  /\ resp[p].status = StatusInternalServerError
                  /\ doc = data[p].bytes

\* C3: replace is atomic: in every state, a replace in progress and a
\* failed replace included, items.json (when it exists) parses as a whole
\* catalog; after a failed replace, the only one made, it holds the catalog
\* from before.
C3_ReplaceAtomic ==
    /\ exists => ~Parsed.err
    /\ \A p \in Procs :
          (pc[p] = "done" /\ werr[p] /\ nPosts = 1) =>
              /\ exists = (initCat # <<>>)
              /\ Catalog = initCat

\* C4: a failure of ioutil.WriteFile is reported: the handler answers 500,
\* never 201.
C4_WriteFailureReported ==
    \A p \in Procs :
        (pc[p] = "done" /\ werr[p]) =>
            /\ resp[p].status = StatusInternalServerError
            /\ resp[p].status # StatusCreated

LastAcked == acked[Len(acked)]
HasSuffix(s, suffix) ==
    /\ Len(suffix) <= Len(s)
    /\ SubSeq(s, Len(s) - Len(suffix) + 1, Len(s)) = suffix

\* C5: with one request served at a time, a listItems after n >= 1
\* successful createItem calls answers the catalog persisted at start
\* followed by exactly the n created items, in call order.
C5_DurableInOrder ==
    (read.op = "list" /\ acked # <<>>) =>
        /\ read.resp.status = StatusOK
        /\ ~Unmarshal(read.resp.raw).err
        /\ Unmarshal(read.resp.raw).items = initCat \o AckedItems

\* C6: with one request served at a time, getItem of the id given to the
\* item of the latest successful createItem(n, c, img, ext) answers an item
\* named n, of category c, whose image_name ends in ext.
C6_RoundTrip ==
    (read.op = "get" /\ acked # <<>> /\ read.arg = LastAcked.item.id) =>
        /\ read.resp.status = StatusOK
        /\ read.resp.item.name = LastAcked.req.name
        /\ read.resp.item.category = LastAcked.req.category
        /\ HasSuffix(read.resp.item.image_name, Ext(LastAcked.req.image.filename))

\* whether the name or the category of an item holds the keyword searched
HoldsKeyword(it) == Contains(it.name, read.arg) \/ Contains(it.category, read.arg)

\* C7: over a persisted catalog and a keyword that is not empty,
\* searchItems answers 200 with exactly the items whose name or category
\* holds the keyword, in catalog order (none when none matches).
C7_SearchExact ==
    (read.op = "search" /\ read.arg # <<>> /\ ~Load.err /\ ~Parsed.err) =>
        /\ read.resp.status = StatusOK
        /\ read.resp.items = SelectSeq(Catalog, HoldsKeyword)

\* the places of the read catalog whose item has the id asked for
Matching == { i \in 1..Len(Catalog) : Catalog[i].id = read.arg }

\* C8: over a persisted catalog, getItem(id) answers the first item, in
\* catalog order, whose id is the one asked for, and answers 404 exactly
\* when no item has that id; it never answers an item of another id.
C8_GetFirstMatch ==
    (read.op = "get" /\ ~Load.err /\ ~Parsed.err) =>
        /\ (Matching = {}) <=> (read.resp.status = StatusNotFound)
        /\ Matching # {} =>
              /\ read.resp.status = StatusOK
              /\ read.resp.item.id = read.arg
              /\ \E i \in Matching :
                    /\ \A j \in Matching : i <= j
                    /\ read.resp.item = Catalog[i]

\* a getItem answered from a catalog where two different items have the id
\* asked for
C8_Witness ==
    /\ read.op = "get"
    /\ read.resp.status = StatusOK
    /\ \E i, j \in Matching : Catalog[i] # Catalog[j]

\* C9: the ids of the items of the persisted catalog are pairwise distinct.
C9_UniqueIds ==
    \A i, j \in 1..Len(Catalog) : i # j => Catalog[i].id # Catalog[j].id

\* C10: the image is stored before the catalog is replaced: a handler that
\* has come to load or replace the catalog has its image file in images/,
\* and every image_name written into items.json names a file in images/.
C10_ImageBeforeCatalog ==
    /\ \A p \in Procs :
          pc[p] \in {"load", "open", "write"} => item[p].image_name \in DOMAIN images
    /\ \A it \in ItemsIn(doc) : it.image_name \in DOMAIN images

\* a catalog replaced by a createItem: it holds an item that was not there
\* at start
C10_Witness ==
    /\ ~Load.err /\ ~Parsed.err
    /\ \E i \in 1..Len(Catalog) : \E k \in 1..Len(acked) :
          /\ Catalog[i] = acked[k].item
          /\ Count(initCat, Catalog[i]) = 0

\* the successful createItem calls i and j uploaded the same bytes
SameBytes(i, j) == acked[i].req.image.content = acked[j].req.image.content

\* the statement of C11 as written: createItem calls that upload the same
\* bytes get the same image_name, whatever their file names
C11_SameBytesSameName ==
    \A i, j \in 1..Len(acked) :
        SameBytes(i, j) => acked[i].item.image_name = acked[j].item.image_name

\* C11: createItem calls that upload the same bytes under file names with
\* the same extension get the same image_name, also when the file names
\* differ; the image_name is the hex digest of the bytes followed by the
\* extension of the file name.
C11_SameBytesSameExt ==
    \A i, j \in 1..Len(acked) :
        /\ acked[i].item.image_name =
              Sha256Hex(acked[i].req.image.content) \o Ext(acked[i].req.image.filename)
        /\ (SameBytes(i, j) /\
              Ext(acked[i].req.image.filename) = Ext(acked[j].req.image.filename))
              => acked[i].item.image_name = acked[j].item.image_name

\* two successful createItem calls with the same bytes, file names that
\* differ and one image_name
C11_Witness ==
    \E i, j \in 1..Len(acked) :
        /\ SameBytes(i, j)
        /\ acked[i].req.image.filename # acked[j].req.image.filename
        /\ acked[i].item.image_name = acked[j].item.image_name

\* a createItem that found no items.json when it loaded, and whose
\* ioutil.WriteFile did not fail, has answered
CreatedFromMissing(p) ==
    /\ pc[p] = "done"
    /\ data[p].called /\ data[p].err
    /\ ~werr[p]

\* the createItem part of C12: over a missing items.json createItem answers
\* 201 and persists a catalog of one item, its own
C12_CreateFromMissing ==
    \A p \in Procs :
        CreatedFromMissing(p) =>
            /\ resp[p].status = StatusCreated
            /\ exists /\ ~Parsed.err
            /\ Catalog = <<item[p]>>

\* C12: while no items.json has been persisted, every operation works on
\* an empty catalog: listItems answers 200 with no item, searchItems with a
\* keyword that is not empty answers 200 with no item, getItem answers 404
\* (not 500), and createItem answers 201 and persists a one-item catalog.
C12_MissingIsEmpty ==
    /\ (read.op = "list" /\ ~exists) =>
          /\ read.resp.status = StatusOK
          /\ Unmarshal(read.resp.raw).items = <<>>
    /\ (read.op = "search" /\ read.arg # <<>> /\ ~exists) =>
          /\ read.resp.status = StatusOK
          /\ read.resp.items = <<>>
    /\ (read.op = "get" /\ ~exists) =>
          read.resp.status = StatusNotFound
    /\ C12_CreateFromMissing

\* items.json exists and does not parse
Corrupt == exists /\ Unmarshal(doc).err

\* C13: while items.json holds content that does not parse, listItems,
\* getItem and searchItems (with a keyword) answer 500; none answers as it
\* would over an empty catalog (a list with 200, a search with no item, a
\* 404).
C13_CorruptReadsFail ==
    (Corrupt /\ read.op \in {"list", "get", "search"}
             /\ (read.op = "search" => read.arg # <<>>)) =>
        read.resp.status = StatusInternalServerError

\* C14: searchItems without a keyword answers 400 whether items.json
\* exists and parses, is missing, or does not parse, and answers before
\* items.json is read.
C14_EmptyKeywordRejected ==
    (read.op = "search" /\ read.arg = <<>>) =>
        /\ read.resp.status = StatusBadRequest
        /\ ~read.data.called

\* a search without a keyword answered over an items.json that does not
\* parse
C14_Witness ==
    /\ read.op = "search" /\ read.arg = <<>>
    /\ Corrupt
    /\ read.resp.status = StatusBadRequest

\* goroutine p holds a request whose form parsed and has no file part
\* "image"
WithoutImage(p) == req[p].parsed /\ ~req[p].image.present

\* C15: createItem without an image answers 400 in its first step, ends
\* there, and leaves items.json and images/ as they were before the call.
C15_NoImageNoEffect ==
    [][\A p \in Procs :
          (pc[p] = "idle" /\ pc'[p] # "idle" /\ WithoutImage(p)') =>
              /\ pc'[p] = "done"
              /\ resp'[p] = ErrorResp(StatusBadRequest)
              /\ exists' = exists
              /\ doc' = doc
              /\ images' = images]_vars

\* a createItem without an image has answered 400 over an items.json that
\* holds a catalog
C15_Witness ==
    \E p \in Procs :
        /\ pc[p] = "done"
        /\ WithoutImage(p)
        /\ resp[p].status = StatusBadRequest
        /\ Catalog # <<>>

\* the file of images/ named by the item of the successful createItem i
\* holds the bytes that were uploaded
StoredWhole(i) ==
    /\ acked[i].item.image_name \in DOMAIN images
    /\ images[acked[i].item.image_name] = acked[i].req.image.content

\* C16: images/ needs no lock: from the moment a createItem has answered
\* 201, the file named by its image_name holds the whole upload in every
\* later state, also while other createItem calls write the same bytes
\* under the same name; no empty or partly written file is seen.
C16_StoredImageComplete ==
    \A i \in 1..Len(acked) : StoredWhole(i)

\* the catalog t is the catalog s with one item added at the end
ExtendsByOne(s, t) ==
    /\ Len(t) = Len(s) + 1
    /\ SubSeq(t, 1, Len(s)) = s

\* C17: the persisted catalog is append-only: every step of every handler
\* either leaves the catalog held by items.json as it is or adds one item
\* at its end; no item is removed, moved or changed.
C17_AppendOnly ==
    [][Catalog' = Catalog \/ ExtendsByOne(Catalog, Catalog')]_vars

\* the answer held in read is made from items.json as it is (ex, d) and
\* from nothing else
AnswersFrom(ex, d) ==
    /\ read.data.called => read.data = ReadFile(ex, d)
    /\ read.op = "list" =>
          /\ read.data.called
          /\ read.resp.status = StatusOK => (ex /\ read.resp.raw = d)
          /\ read.resp.status # StatusOK => ~ex
    /\ read.op = "get" =>
          /\ read.data.called
          /\ read.resp.status = StatusOK =>
                /\ ex
                /\ read.resp.item \in ItemsIn(d)
                /\ read.resp.item.id = read.arg
    /\ read.op = "search" =>
          \A i \in 1..Len(read.resp.items) :
              /\ ex
              /\ read.resp.items[i] \in ItemsIn(d)

\* C18: listItems, getItem and searchItems leave items.json and images/ as
\* they are, whether they answer 200 or an error, and each answers from
\* items.json as it is at the step of its own read; nothing is kept from
\* one call to the next.
C18_ReadsChangeNothing ==
    [][(read.op = "none" /\ read'.op # "none") =>
          /\ exists' = exists
          /\ doc' = doc
          /\ images' = images
          /\ AnswersFrom(exists, doc)']_vars

\* a getItem answers an item that a createItem has put into items.json
\* since the start
C18_Witness ==
    /\ read.op = "get"
    /\ read.resp.status = StatusOK
    /\ Count(initCat, read.resp.item) = 0
    /\ \E k \in 1..Len(acked) : acked[k].item = read.resp.item
====
